---- MODULE Spec2Model ----
(***************************************************************************)
(* A model of pygreynoise/api.py: the argument validators, the client      *)
(* construction (credential resolution), the endpoint table, the request   *)
(* executor _query and the combination paginator _combination.             *)
(*                                                                         *)
(* Python strings that the code parses (IP addresses, dates) are sequences *)
(* of one-character strings.  JSON values are tagged records.              *)
(***************************************************************************)
EXTENDS Integers, Sequences, FiniteSets, TLC

VARIABLES
    ip_address, strict, ipResult,          \* one call of validate_ip
    configFile, client, last,              \* ~/.greynoise, the GreyNoise object, its last call
    gen, script, reqs, yielded, lastPull, calls   \* one _combination generator and its transport

ipVars     == <<ip_address, strict, ipResult>>
clientVars == <<configFile, client, last>>
pagerVars  == <<gen, script, reqs, yielded, lastPull, calls>>
vars       == <<ip_address, strict, ipResult, configFile, client, last,
                gen, script, reqs, yielded, lastPull, calls>>

----------------------------------------------------------------------------
(* Bounds *)

MaxLen   == 7     \* longest string handed to validate_ip in SpecIP
MaxIps   == 2     \* most addresses in one enterprise.noise.multi call
MaxPages == 3     \* longest scripted sequence of transport responses
MaxStart == 1     \* largest offset multiplier "start"
MaxCalls == 2     \* _combination calls made in one behaviour

----------------------------------------------------------------------------
(* Strings *)

Alphabet == {"0", "1", "9", ".", "x"}

Strings(n) == UNION {[1..k -> Alphabet] : k \in 0..n}

Digits == {"0", "1", "2", "3", "4", "5", "6", "7", "8", "9"}

DigitVal(c) ==
    CASE c = "0" -> 0 [] c = "1" -> 1 [] c = "2" -> 2 [] c = "3" -> 3
      [] c = "4" -> 4 [] c = "5" -> 5 [] c = "6" -> 6 [] c = "7" -> 7
      [] c = "8" -> 8 [] c = "9" -> 9

\* The substring s[i..j] (1-based, inclusive); empty when j < i.
Sub(s, i, j) == [k \in 1..(j - i + 1) |-> s[i + k - 1]]

\* Index of the first occurrence of c in s at or after i, Len(s)+1 if none.
RECURSIVE Find(_, _, _)
Find(s, c, i) ==
    IF i > Len(s) THEN Len(s) + 1
    ELSE IF s[i] = c THEN i
    ELSE Find(s, c, i + 1)

\* str.split(c)
RECURSIVE Split(_, _)
Split(s, c) ==
    LET j == Find(s, c, 1) IN
    IF j > Len(s) THEN <<s>>
    ELSE <<Sub(s, 1, j - 1)>> \o Split(Sub(s, j + 1, Len(s)), c)

AllDigits(s) == \A k \in 1..Len(s) : s[k] \in Digits

RECURSIVE DecVal(_)
DecVal(s) ==
    IF Len(s) = 0 THEN 0
    ELSE 10 * DecVal(Sub(s, 1, Len(s) - 1)) + DigitVal(s[Len(s)])

----------------------------------------------------------------------------
(* socket.inet_aton, as the C library parses an address *)

IsSpace(c) == c \in {" ", "\t", "\n"}

\* A digit of the base strtoul settled on.
IsBaseDigit(c, base) == c \in Digits /\ DigitVal(c) < base

RECURSIVE Accum(_, _, _, _)
Accum(s, i, base, acc) ==
    IF i <= Len(s) /\ IsBaseDigit(s[i], base)
    THEN Accum(s, i + 1, base, acc * base + DigitVal(s[i]))
    ELSE [val |-> acc, end |-> i]

\* strtoul(cp, &endp, 0) at a position holding a digit: "0x" then a hex
\* digit reads hexadecimal, a leading "0" reads octal, anything else decimal.
Strtoul(s, i) ==
    IF s[i] = "0" /\ i + 2 <= Len(s) /\ s[i + 1] \in {"x", "X"}
                  /\ IsBaseDigit(s[i + 2], 16)
    THEN Accum(s, i + 2, 16, 0)
    ELSE IF s[i] = "0" THEN Accum(s, i, 8, 0)
    ELSE Accum(s, i, 10, 0)

\* val <= 0xffffffff, written with numbers that fit the checker's integers.
\* (A string of at most nine characters has a value below 2^31.)
Fits32(val) == val \div 65536 <= 65535

\* Whether val fits the last part when n parts came before it
\* (the limits 0xffffffff, 0xffffff, 0xffff, 0xff).
AtonMax(n, val) == CASE n = 0 -> Fits32(val) [] n = 1 -> val <= 16777215
                     [] n = 2 -> val <= 65535 [] n = 3 -> val <= 255

RECURSIVE AtonLoop(_, _, _)
AtonLoop(s, i, n) ==
    IF i > Len(s) \/ s[i] \notin Digits THEN FALSE
    ELSE LET r == Strtoul(s, i) IN
         IF ~Fits32(r.val) THEN FALSE
         ELSE IF r.end <= Len(s) /\ s[r.end] = "."
              THEN IF n >= 3 \/ r.val > 255 THEN FALSE
                   ELSE AtonLoop(s, r.end + 1, n + 1)
              ELSE IF r.end <= Len(s) /\ ~IsSpace(s[r.end]) THEN FALSE
                   ELSE AtonMax(n, r.val)

inet_aton(s) == AtonLoop(s, 1, 0)

----------------------------------------------------------------------------
(* validate_ip *)

Returned(v) == [kind |-> "return", value |-> v]
ReturnedNone == [kind |-> "none"]
Raised(e) == [kind |-> "raise", exc |-> e]
Pending == [kind |-> "pending"]

validate_ip(ip, isStrict) ==
    IF inet_aton(ip) THEN Returned(ip)
    ELSE IF isStrict THEN Raised("ValueError")
    ELSE ReturnedNone

----------------------------------------------------------------------------
(* validate_date: datetime.datetime.strptime(date, '%Y-%m-%d') *)

\* %Y is the pattern \d\d\d\d
MatchesY(p) == Len(p) = 4 /\ AllDigits(p)

\* %m is the pattern 1[0-2]|0[1-9]|[1-9]
MatchesM(p) ==
    \/ Len(p) = 2 /\ p[1] = "1" /\ p[2] \in {"0", "1", "2"}
    \/ Len(p) = 2 /\ p[1] = "0" /\ p[2] \in Digits \ {"0"}
    \/ Len(p) = 1 /\ p[1] \in Digits \ {"0"}

\* %d is the pattern 3[01]|[12]\d|0[1-9]|[1-9]| [1-9]
MatchesD(p) ==
    \/ Len(p) = 2 /\ p[1] = "3" /\ p[2] \in {"0", "1"}
    \/ Len(p) = 2 /\ p[1] \in {"1", "2"} /\ p[2] \in Digits
    \/ Len(p) = 2 /\ p[1] = "0" /\ p[2] \in Digits \ {"0"}
    \/ Len(p) = 1 /\ p[1] \in Digits \ {"0"}
    \/ Len(p) = 2 /\ p[1] = " " /\ p[2] \in Digits \ {"0"}

IsLeap(y) == y % 4 = 0 /\ (y % 100 # 0 \/ y % 400 = 0)

DaysInMonth(y, m) ==
    IF m = 2 THEN (IF IsLeap(y) THEN 29 ELSE 28)
    ELSE IF m \in {4, 6, 9, 11} THEN 30
    ELSE 31

\* The day field's value (" 5" reads as 5).
DayVal(p) == IF p[1] = " " THEN DigitVal(p[2]) ELSE DecVal(p)

\* Whether strptime accepts the string: the three fields match their
\* patterns with nothing left over, and they name a day of the calendar
\* (years start at 1).
strptime(date) ==
    LET parts == Split(date, "-") IN
    /\ Len(parts) = 3
    /\ MatchesY(parts[1])
    /\ MatchesM(parts[2])
    /\ MatchesD(parts[3])
    /\ DecVal(parts[1]) >= 1
    /\ DayVal(parts[3]) <= DaysInMonth(DecVal(parts[1]), DecVal(parts[2]))

validate_date(date) ==
    IF strptime(date) THEN Returned(date)
    ELSE Raised("ValueError")

----------------------------------------------------------------------------
(* SpecIP: validate_ip applied to every string over Alphabet up to MaxLen *)

IdleClient == [state |-> "none"]
IdleLast   == [state |-> "none"]
IdleGen    == [state |-> "none"]

ClientIdle ==
    /\ configFile = "absent"
    /\ client = IdleClient
    /\ last = IdleLast

PagerIdle ==
    /\ gen = IdleGen
    /\ script = <<>>
    /\ reqs = <<>>
    /\ yielded = <<>>
    /\ lastPull = "none"
    /\ calls = 0

IpIdle ==
    /\ ip_address = <<>>
    /\ strict = TRUE
    /\ ipResult = Pending

InitIP ==
    /\ ip_address \in Strings(MaxLen)
    /\ strict \in BOOLEAN
    /\ ipResult = Pending
    /\ ClientIdle
    /\ PagerIdle

CallValidateIp ==
    /\ ipResult = Pending
    /\ ipResult' = validate_ip(ip_address, strict)
    /\ UNCHANGED <<ip_address, strict>>
    /\ UNCHANGED clientVars
    /\ UNCHANGED pagerVars

NextIP == CallValidateIp

SpecIP == InitIP /\ [][NextIP]_vars

----------------------------------------------------------------------------
(* JSON values and HTTP responses *)

Absent   == [t |-> "absent"]           \* a key the object does not have
JStr(x)  == [t |-> "str", v |-> x]
JBool(b) == [t |-> "bool", v |-> b]
JList(l) == [t |-> "list", v |-> l]

\* dict.get(k, default), given the field's value
Get(field, default) == IF field = Absent THEN default ELSE field

DictBody(error, status, complete, ips) ==
    [kind |-> "dict", error |-> error, status |-> status,
     complete |-> complete, ips |-> ips]

Http(status, body) == [kind |-> "http", status |-> status, body |-> body]

TransportFailure == [kind |-> "transport_failure"]

\* The bodies a server may answer an endpoint call with: text that is not
\* JSON, a JSON list, or an object with or without 'error' and 'status'.
Bodies ==
    {[kind |-> "undecodable"], [kind |-> "list"]}
    \cup {DictBody(e, st, Absent, Absent) :
            e \in {Absent, JStr("bad key")},
            st \in {Absent, JStr("ok"), JStr("error")}}

Statuses == {200, 403, 500}

Responses == {TransportFailure} \cup {Http(st, b) : st \in Statuses, b \in Bodies}

----------------------------------------------------------------------------
(* GreyNoise._query *)

BASE_URL == "https://research.api.greynoise.io/v2"
OK == "ok"
UA == "PyGreyNoise/2"

NoData == [t |-> "nodata"]             \* the default data={}
JsonData(obj) == [t |-> "json", obj |-> obj]

\* '/'.join([self._BASE_URL, endpoint, query]).strip('/')
Uri(endpoint, query) == [base |-> BASE_URL, endpoint |-> endpoint, query |-> query]

Request(key, endpoint, query, data) ==
    [method |-> "GET", uri |-> Uri(endpoint, query), data |-> data,
     headers |-> [key |-> key, ua |-> UA]]

NoRequest == [method |-> "none"]

GreyNoiseError(message) ==
    [kind |-> "raise", exc |-> "GreyNoiseError", message |-> message]

\* str(error) of the HTTPError that raise_for_status raised
HTTPErrorText(status, url) == [t |-> "http_status_text", status |-> status, url |-> url]

\* '{msg} ({endpoint}{data})'
HttpMessage(msg, endpoint, data) ==
    [form |-> "msg (endpoint data)", msg |-> msg, endpoint |-> endpoint, data |-> data]

\* The message of an error signalled in a 200 response: the bare text
PlainMessage(msg) == [form |-> "msg", msg |-> msg]

\* res.raise_for_status() raises for 4xx and 5xx
IsHTTPError(status) == status >= 400 /\ status < 600

\* A variant that looks for the 'error' key alone.
InBandError_ErrorKeyOnly(body) ==
    /\ body.error # Absent
    /\ ~(body.status = JStr(OK))

\* if {'error', 'status'} & loaded.keys() and not loaded.get('status') == self._OK
InBandError(body) ==
    /\ (body.error # Absent \/ body.status # Absent)
    /\ ~(body.status = JStr(OK))

\* What _query returns or raises once the transport answered resp to req.
QueryOutcome(req, resp) ==
    IF resp.kind = "transport_failure" THEN Raised("ConnectionError")
    ELSE IF IsHTTPError(resp.status)
    THEN \* except requests.HTTPError: loaded = res.json() ...
         IF resp.body.kind = "undecodable" THEN Raised("ValueError")
         ELSE IF resp.body.kind = "list" THEN Raised("AttributeError")
         ELSE GreyNoiseError(HttpMessage(
                  Get(resp.body.error,
                      Get(resp.body.status, HTTPErrorText(resp.status, req.uri))),
                  req.uri, req.data))
    ELSE \* loaded = res.json(); the check for an error reported in the body
         IF resp.body.kind = "undecodable" THEN Raised("ValueError")
         ELSE IF resp.body.kind = "list" THEN Raised("AttributeError")
         ELSE IF InBandError(resp.body)
              THEN GreyNoiseError(PlainMessage(
                       Get(resp.body.error, Get(resp.body.status, Absent))))
              ELSE Returned(resp.body)

\* _query up to requests.request: the request is on the wire and the call
\* waits for the transport.
Query(key, endpoint, query, data) ==
    [request |-> Request(key, endpoint, query, data), result |-> Pending]

\* A call that ended before _query ran.
NotSent(result) == [request |-> NoRequest, result |-> result]

----------------------------------------------------------------------------
(* GreyNoise.__init__: the credential *)

PyNone == "<None>"                     \* the default key=None
Keys == {"k1", "k2"}                   \* API keys

\* config = ConfigParser(default_section='GreyNoise', defaults={'key': key})
\* config.read(config_file); self.key = config['GreyNoise']['key']
\* fileKey is the key the file's [GreyNoise] section holds, "absent" if the
\* file or the entry is missing.  What the file holds replaces the default.
ResolveKey(key, fileKey) == IF fileKey # "absent" THEN fileKey ELSE key

\* A ConfigParser that checks its defaults refuses key=None ("option values
\* must be strings"); one that does not check them stores None as the
\* default.  Both libraries exist, so both outcomes are possible.
Construct(key, store_key) ==
    LET resolved == ResolveKey(key, configFile) IN
    /\ key # PyNone
    /\ client' = [state |-> "ready", key |-> resolved, keyArg |-> key]
    /\ configFile' = IF store_key THEN resolved ELSE configFile
    /\ last' = IdleLast

ConstructNoKeyRefused ==
    /\ client' = [state |-> "failed", exc |-> "TypeError"]
    /\ last' = IdleLast
    /\ UNCHANGED configFile

ConstructNoKey(store_key) ==
    LET resolved == ResolveKey(PyNone, configFile) IN
    /\ IF store_key /\ resolved = PyNone
       THEN \* config.write fails on the None value
            client' = [state |-> "failed", exc |-> "AttributeError"]
       ELSE client' = [state |-> "ready", key |-> resolved, keyArg |-> PyNone]
    /\ last' = IdleLast
    /\ UNCHANGED configFile

----------------------------------------------------------------------------
(* GreyNoise._methods: the endpoint table *)

IPEndpoints == {"research.ip", "research.ja3.ip", "research.raw.ip",
                "enterprise.noise.context", "enterprise.noise.quick"}

Path(name) ==
    CASE name = "research.ip"              -> "research/ip"
      [] name = "research.ja3.fingerprint" -> "research/ja3/fingerprint"
      [] name = "research.ja3.ip"          -> "research/ja3/ip"
      [] name = "research.raw.ip"          -> "research/raw/ip"
      [] name = "research.raw.scan"        -> "research/raw/scan"
      [] name = "research.tag.combination" -> "research/tag/combination"
      [] name = "research.tag.list"        -> "research/tag/list"
      [] name = "research.tag.single"      -> "research/tag/single"
      [] name = "enterprise.noise.bulk"    -> "enterprise/noise/bulk"
      [] name = "enterprise.noise.context" -> "enterprise/noise/context"
      [] name = "enterprise.noise.multi"   -> "enterprise/noise/multi/quick"
      [] name = "enterprise.noise.quick"   -> "enterprise/noise/quick"

\* A variant that passes the address on unchecked.
IpMethod_Unchecked(key, name, ip) == Query(key, Path(name), ip, NoData)

\* lambda ip: self._query(<path>, validate_ip(ip))
IpMethod(key, name, ip) ==
    LET v == validate_ip(ip, TRUE) IN
    IF v.kind = "raise" THEN NotSent(v)
    ELSE Query(key, Path(name), v.value, NoData)

\* lambda date='': self._query('enterprise/noise/bulk',
\*                             '' if not date else validate_date(date))
BulkMethod(key, date) ==
    IF date = <<>> THEN Query(key, Path("enterprise.noise.bulk"), <<>>, NoData)
    ELSE LET v == validate_date(date) IN
         IF v.kind = "raise" THEN NotSent(v)
         ELSE Query(key, Path("enterprise.noise.bulk"), v.value, NoData)

\* {'ips': validate_ip(ip) for ip in ips}: every address is validated in
\* turn and stored under the one key 'ips'; d is the dict built so far.
RECURSIVE IpsComprehension(_, _, _)
IpsComprehension(ips, k, d) ==
    IF k > Len(ips) THEN Returned(d)
    ELSE LET v == validate_ip(ips[k], TRUE) IN
         IF v.kind = "raise" THEN v
         ELSE IpsComprehension(ips, k + 1, [ips |-> JStr(v.value)])

\* lambda *ips: self._query('enterprise/noise/multi/quick',
\*                          data=json.dumps({'ips': validate_ip(ip) for ip in ips}))
MultiMethod(key, ips) ==
    LET d == IpsComprehension(ips, 1, [ips |-> Absent]) IN
    IF d.kind = "raise" THEN NotSent(d)
    ELSE Query(key, Path("enterprise.noise.multi"), <<>>, JsonData(d.value))

\* The callables that pass their arguments on unchecked.
\* fingerprint: lambda fingerprint: self._query('research/ja3/fingerprint', fingerprint)
FingerprintMethod(key, fingerprint) ==
    Query(key, Path("research.ja3.fingerprint"), fingerprint, NoData)

\* list: lambda: self._query('research/tag/list')
ListMethod(key) == Query(key, Path("research.tag.list"), <<>>, NoData)

\* single: lambda tag: self._query('research/tag/single', data=json.dumps({'tag': tag}))
SingleMethod(key, tag) ==
    Query(key, Path("research.tag.single"), <<>>, JsonData([tag |-> JStr(tag)]))

----------------------------------------------------------------------------------------------------------------------------------------
(* SpecClient: constructing a client and calling its endpoints.  A call    *)
(* that reaches requests.request waits there until the transport answers;  *)
(* the library is synchronous, so nothing else runs meanwhile.             *)

\* Arguments for the callables that take an address: two dotted quads, a
\* short form and an octet out of range.
IPArgs == { <<"1", ".", "1", ".", "1", ".", "1">>,
            <<"9", ".", "9", ".", "9", ".", "9">>,
            <<"1", ".", "1">>,
            <<"9", "9", "9", ".", "1">> }

\* Addresses for enterprise.noise.multi.
MultiArgs == { <<"1", ".", "1", ".", "1", ".", "1">>,
               <<"9", ".", "9", ".", "9", ".", "9">>,
               <<"1", ".", ".", "1">> }

\* Arguments for enterprise.noise.bulk: no date, two dates of the calendar,
\* a day that does not exist, a month out of range, a short year, and text.
DateArgs == { <<>>,
              <<"2", "0", "1", "9", "-", "0", "1", "-", "0", "5">>,
              <<"2", "0", "2", "0", "-", "2", "-", "2", "9">>,
              <<"2", "0", "1", "9", "-", "0", "2", "-", "3", "0">>,
              <<"2", "0", "1", "9", "-", "1", "3", "-", "0", "1">>,
              <<"1", "9", "-", "0", "1", "-", "0", "5">>,
              <<"x">> }

IpLists == UNION {[1..k -> MultiArgs] : k \in 0..MaxIps}

Fingerprints == { <<"9", "x">> }
Tags == { "Mirai" }

NoResponse == [kind |-> "none"]

\* The record of a call: what was called, the request it put on the wire,
\* the transport's answer and how the call ended.
Called(name, args, run) ==
    [state |-> IF run.result = Pending THEN "awaiting" ELSE "called",
     name |-> name, args |-> args,
     request |-> run.request, response |-> NoResponse, result |-> run.result]

InitClient ==
    /\ configFile \in {"absent"} \cup Keys
    /\ client = IdleClient
    /\ last = IdleLast
    /\ IpIdle
    /\ PagerIdle

DoConstruct ==
    /\ last.state # "awaiting"
    /\ \E key \in Keys, store_key \in BOOLEAN : Construct(key, store_key)
    /\ UNCHANGED <<ipVars, pagerVars>>

DoConstructNoKeyRefused ==
    /\ last.state # "awaiting"
    /\ ConstructNoKeyRefused
    /\ UNCHANGED <<ipVars, pagerVars>>

DoConstructNoKey ==
    /\ last.state # "awaiting"
    /\ \E store_key \in BOOLEAN : ConstructNoKey(store_key)
    /\ UNCHANGED <<ipVars, pagerVars>>

CanCall == client.state = "ready" /\ last.state # "awaiting"

CallIp ==
    /\ CanCall
    /\ \E name \in IPEndpoints, ip \in IPArgs :
           last' = Called(name, ip, IpMethod(client.key, name, ip))
    /\ UNCHANGED <<configFile, client, ipVars, pagerVars>>

CallBulk ==
    /\ CanCall
    /\ \E date \in DateArgs :
           last' = Called("enterprise.noise.bulk", date, BulkMethod(client.key, date))
    /\ UNCHANGED <<configFile, client, ipVars, pagerVars>>

CallMulti ==
    /\ CanCall
    /\ \E ips \in IpLists :
           last' = Called("enterprise.noise.multi", ips, MultiMethod(client.key, ips))
    /\ UNCHANGED <<configFile, client, ipVars, pagerVars>>

CallFingerprint ==
    /\ CanCall
    /\ \E f \in Fingerprints :
           last' = Called("research.ja3.fingerprint", f,
                          FingerprintMethod(client.key, f))
    /\ UNCHANGED <<configFile, client, ipVars, pagerVars>>

CallList ==
    /\ CanCall
    /\ last' = Called("research.tag.list", <<>>, ListMethod(client.key))
    /\ UNCHANGED <<configFile, client, ipVars, pagerVars>>

CallSingle ==
    /\ CanCall
    /\ \E tag \in Tags :
           last' = Called("research.tag.single", tag, SingleMethod(client.key, tag))
    /\ UNCHANGED <<configFile, client, ipVars, pagerVars>>

\* The transport answers (or fails) and _query runs to its end.
Respond ==
    /\ last.state = "awaiting"
    /\ \E resp \in Responses :
           last' = [last EXCEPT !.state = "called",
                                !.response = resp,
                                !.result = QueryOutcome(last.request, resp)]
    /\ UNCHANGED <<configFile, client, ipVars, pagerVars>>

NextClient ==
    \/ DoConstruct
    \/ DoConstructNoKeyRefused
    \/ DoConstructNoKey
    \/ CallIp
    \/ CallBulk
    \/ CallMulti
    \/ CallFingerprint
    \/ CallList
    \/ CallSingle
    \/ Respond

SpecClient == InitClient /\ [][NextClient]_vars

----------------------------------------------------------------------------
(* GreyNoise._combination: the paginator, a generator function *)

PageSize == 100

\* A variant that scales the page index but not the start.
Offset_StartUnscaled(start, i) == start + i * PageSize

\* (start + i) * 100
Offset(start, i) == (start + i) * PageSize

\* json.dumps({'query': query, 'offset': (start + i) * 100})
CombinationData(query, start, i) ==
    JsonData([query |-> query, offset |-> Offset(start, i)])

\* A variant that takes a missing flag for "not complete".
CompleteFlag_DefaultFalse(r) == Get(r.complete, JBool(FALSE))

\* r.get('complete', True)
CompleteFlag(r) == Get(r.complete, JBool(TRUE))

Truthy(j) == j.t = "bool" /\ j.v

\* Calling _combination runs none of its body: it makes a generator whose
\* itertools.count() has produced nothing yet.
NewGenerator(query, start, iterable) ==
    [state |-> "suspended", query |-> query, start |-> start,
     iterable |-> iterable, count |-> 0, resumed |-> 0, ret |-> Absent]

\* The generator after one next(): the body runs from the top of the loop
\* through one _query that ended with `out`, to its yield, return or raise.
Resume(g, out) ==
    LET g1 == [g EXCEPT !.count = g.count + 1, !.resumed = g.resumed + 1] IN
    IF out.kind = "raise"
    THEN [gen |-> [g1 EXCEPT !.state = "done"], pull |-> "raise", page |-> Absent]
    ELSE LET r == out.value IN
         IF r.ips = Absent       \* r['ips'] raises KeyError on either branch
         THEN [gen |-> [g1 EXCEPT !.state = "done"], pull |-> "raise", page |-> Absent]
         ELSE IF ~g.iterable \/ Truthy(CompleteFlag(r))
              THEN [gen |-> [g1 EXCEPT !.state = "done", !.ret = r.ips],
                    pull |-> "return", page |-> Absent]
              ELSE [gen |-> g1, pull |-> "yield", page |-> r.ips]

----------------------------------------------------------------------------
(* SpecPager: _combination driven by next() against a scripted transport.  *)
(* The script is the sequence of responses the transport gives to the      *)
(* requests of one iteration, in order; past its end the transport fails.  *)

Items == { <<"1.1.1.1">>, <<"2.2.2.2", "3.3.3.3">> }

Page(complete, ips) == Http(200, DictBody(Absent, JStr(OK), complete, ips))

PageResponses ==
    {Page(JBool(c), JList(items)) : c \in BOOLEAN, items \in Items}
    \cup {Page(Absent, JList(<<"1.1.1.1">>))}
    \cup {Page(JBool(FALSE), Absent)}
    \cup {Http(403, DictBody(JStr("bad key"), Absent, Absent, Absent))}

Scripts == UNION {[1..k -> PageResponses] : k \in 1..MaxPages}

PagerKey == "k1"
PagerQuery == <<"tag">>

\* The transport's answer to the n-th request of the iteration.
Served(n) == IF n <= Len(script) THEN script[n] ELSE TransportFailure

InitPager ==
    /\ script \in Scripts
    /\ gen = IdleGen
    /\ reqs = <<>>
    /\ yielded = <<>>
    /\ lastPull = "none"
    /\ calls = 0
    /\ configFile = "absent"
    /\ client = [state |-> "ready", key |-> PagerKey, keyArg |-> PagerKey]
    /\ last = IdleLast
    /\ IpIdle

\* gen = self._combination(*query, start=start, iterable=iterable)
CallCombination ==
    /\ calls < MaxCalls
    /\ \E start \in 0..MaxStart, iterable \in BOOLEAN :
           gen' = NewGenerator(PagerQuery, start, iterable)
    /\ calls' = calls + 1
    /\ reqs' = <<>>
    /\ yielded' = <<>>
    /\ lastPull' = "none"
    /\ UNCHANGED <<script, ipVars, clientVars>>

\* next(gen) on a generator that has not finished
Pull ==
    /\ gen.state = "suspended"
    /\ LET req == Request(client.key, "research/combination", <<>>,
                          CombinationData(gen.query, gen.start, gen.count))
           out == QueryOutcome(req, Served(Len(reqs) + 1))
           after == Resume(gen, out)
       IN /\ reqs' = Append(reqs, req)
          /\ gen' = after.gen
          /\ lastPull' = after.pull
          /\ yielded' = IF after.pull = "yield" THEN Append(yielded, after.page)
                        ELSE yielded
    /\ UNCHANGED <<script, calls, ipVars, clientVars>>

\* next(gen) on a finished generator: StopIteration, and no code of the body runs
PullExhausted ==
    /\ gen.state = "done"
    /\ lastPull' = "exhausted"
    /\ UNCHANGED <<gen, script, reqs, yielded, calls, ipVars, clientVars>>

NextPager ==
    \/ CallCombination
    \/ Pull
    \/ PullExhausted

SpecPager == InitPager /\ [][NextPager]_vars

----------------------------------------------------------------------------
(* C8 *)

\* The claim's notion of a valid address: four parts separated by dots, each
\* of one to three decimal digits and of value 0..255.
IsDottedQuad(s) ==
    LET parts == Split(s, ".") IN
    /\ Len(parts) = 4
    /\ \A k \in 1..4 : /\ Len(parts[k]) \in 1..3
                       /\ AllDigits(parts[k])
                       /\ DecVal(parts[k]) <= 255

\* C8: for every string that is not a valid dotted-decimal IPv4 address,
\* validate_ip raises when strict and returns None when not strict; it
\* returns the input string only for valid dotted-decimal addresses.
C8_RejectsNonDottedQuad ==
    (ipResult # Pending /\ ~IsDottedQuad(ip_address)) =>
        IF strict THEN ipResult = Raised("ValueError")
                  ELSE ipResult = ReturnedNone

----------------------------------------------------------------------------
(* C1, C2: what an iteration delivers against pages of which only the last *)
(* reports completion                                                      *)

IsPage(resp) == resp.kind = "http" /\ resp.status = 200 /\ resp.body.ips # Absent

\* N >= 1 pages, complete=false on all but the last, complete=true on the last
OnlyLastComplete(sc) ==
    /\ Len(sc) >= 1
    /\ \A k \in 1..Len(sc) :
          /\ IsPage(sc[k])
          /\ sc[k].body.complete = JBool(k = Len(sc))

RECURSIVE ConcatIps(_, _)
ConcatIps(sc, n) ==
    IF n = 0 THEN <<>> ELSE ConcatIps(sc, n - 1) \o sc[n].body.ips.v

\* C1: eager pagination (iterable=False) against N >= 1 pages of which only
\* the last reports complete=true issues N requests and returns the
\* concatenation of the 'ips' of all N pages, in page order.
C1_EagerConcatenatesAllPages ==
    (gen.state = "done" /\ ~gen.iterable /\ OnlyLastComplete(script)) =>
        /\ Len(reqs) = Len(script)
        /\ gen.ret = JList(ConcatIps(script, Len(script)))

\* C2: lazy pagination (iterable=True) consumed to exhaustion against N
\* pages of which only the last reports complete=true yields exactly N
\* values, the k-th being the 'ips' of the k-th response.
C2_LazyYieldsEveryPage ==
    (gen.state = "done" /\ gen.iterable /\ OnlyLastComplete(script)) =>
        /\ Len(yielded) = Len(script)
        /\ \A k \in 1..Len(script) : yielded[k] = script[k].body.ips

----------------------------------------------------------------------------
(* C3: nothing is requested after a page reported completion *)

\* A response that _query hands back and whose 'complete' is true or missing
ReportsCompletion(resp) ==
    /\ resp.kind = "http"
    /\ resp.status = 200
    /\ resp.body.kind = "dict"
    /\ ~InBandError(resp.body)
    /\ resp.body.complete \in {Absent, JBool(TRUE)}

\* C3: in every run of the paginator, a request answered by a page that
\* reports completion ('complete' true, or absent) is the last request of
\* that iteration, however often the generator is pulled afterwards; a first
\* response without 'complete' ends the iteration after one request.
C3_NoRequestAfterCompletion ==
    \A k \in 1..Len(reqs) :
        (k <= Len(script) /\ ReportsCompletion(script[k])) =>
            /\ k = Len(reqs)
            /\ gen.state = "done"

\* A lazy iteration whose second page lacks 'complete', pulled again after it
\* ended, with a third page still unserved.
C3_Witness ==
    /\ gen.state = "done"
    /\ gen.iterable
    /\ Len(script) = 3
    /\ Len(reqs) = 2
    /\ script[2].body.complete = Absent
    /\ ReportsCompletion(script[2])
    /\ lastPull = "exhausted"

----------------------------------------------------------------------------
(* C9: the offsets of an iteration *)

\* C9: the paginator issues exactly one request per pull of a live
\* generator, the k-th request (k = 0, 1, ...) carries offset
\* (start + k) * 100, and a fresh call starts again at start * 100 whatever
\* an earlier iteration did.
C9_OffsetsAdvanceByPageSize ==
    gen.state # "none" =>
        /\ Len(reqs) = gen.resumed
        /\ \A k \in 1..Len(reqs) :
              reqs[k].data.obj.offset = (gen.start + (k - 1)) * 100

\* A second iteration, started at multiplier 1 after an earlier one, that has
\* made three requests.
C9_Witness ==
    /\ calls = 2
    /\ gen.state # "none"
    /\ gen.start = 1
    /\ Len(reqs) = 3
    /\ reqs[3].data.obj.offset = 300

----------------------------------------------------------------------------
(* C4, C5: how _query reports errors *)

CallAnswered == last.state = "called" /\ last.response.kind = "http"

\* The text the claim expects in the error: the body's 'error', else its
\* 'status', else the HTTP status text when the body has neither or is not
\* decodable.
ExpectedHttpMsg(req, resp) ==
    LET fallback == HTTPErrorText(resp.status, req.uri) IN
    IF resp.body.kind # "dict" THEN fallback
    ELSE Get(resp.body.error, Get(resp.body.status, fallback))

\* C4: when a response has a 4xx/5xx status, _query fails with
\* GreyNoiseError whose message carries the body's 'error', falling back to
\* 'status' and then to the HTTP status text when the body has no such field
\* or is not decodable, and which includes the request URL; no other
\* exception type escapes.
C4_HttpErrorRaisesGreyNoiseError ==
    (CallAnswered /\ IsHTTPError(last.response.status)) =>
        /\ last.result.kind = "raise"
        /\ last.result.exc = "GreyNoiseError"
        /\ last.result.message.msg = ExpectedHttpMsg(last.request, last.response)
        /\ last.result.message.endpoint = last.request.uri

\* A 200 response whose decoded body has a 'status' that is not "ok"
InBandFailure ==
    /\ CallAnswered
    /\ last.response.status = 200
    /\ last.response.body.kind = "dict"
    /\ last.response.body.status # Absent
    /\ last.response.body.status # JStr("ok")

\* C5: when a response has status 200 and its body contains a 'status'
\* that is not "ok", _query fails with GreyNoiseError carrying the body's
\* 'error' text, or the 'status' text when there is no 'error', and never
\* returns the body.
C5_InBandStatusRaises ==
    InBandFailure =>
        /\ last.result.kind = "raise"
        /\ last.result.exc = "GreyNoiseError"
        /\ last.result.message.msg =
               (IF last.response.body.error # Absent
                THEN last.response.body.error
                ELSE last.response.body.status)

\* A 200 response {"status": "error"} without 'error', which ended in an
\* error carrying "error".
C5_Witness ==
    /\ InBandFailure
    /\ last.response.body.error = Absent
    /\ last.result.kind = "raise"
    /\ last.result.message.msg = JStr("error")

----------------------------------------------------------------------------
(* C6: a rejected argument stops the call before any request *)

CallMade == last.state \in {"awaiting", "called"}

\* The call's argument is one the validator of its endpoint rejects.
RejectedArgument ==
    /\ CallMade
    /\ \/ /\ last.name \in IPEndpoints
          /\ validate_ip(last.args, TRUE).kind = "raise"
       \/ /\ last.name = "enterprise.noise.bulk"
          /\ last.args # <<>>
          /\ validate_date(last.args).kind = "raise"
       \/ /\ last.name = "enterprise.noise.multi"
          /\ \E k \in 1..Len(last.args) :
                 validate_ip(last.args[k], TRUE).kind = "raise"

\* C6: calling an endpoint that takes an address or a date with an argument
\* its validator rejects fails with a validation error and sends no HTTP
\* request; for multi this holds when any one of the addresses is rejected.
C6_RejectedArgumentSendsNothing ==
    RejectedArgument =>
        /\ last.request = NoRequest
        /\ last.result = Raised("ValueError")

\* multi called with a good address followed by a rejected one
C6_Witness ==
    /\ RejectedArgument
    /\ last.name = "enterprise.noise.multi"
    /\ Len(last.args) = 2
    /\ validate_ip(last.args[1], TRUE).kind = "return"
    /\ last.request = NoRequest

----------------------------------------------------------------------------
(* C7: which credential the requests carry *)

\* C7: when a key argument is given at construction, every later request
\* sends header 'key' equal to that argument whatever the configuration
\* file contains; the file's key is used only when no key is supplied.
C7_ExplicitKeyIsSent ==
    (CallMade /\ last.request # NoRequest /\ client.keyArg # PyNone) =>
        last.request.headers.key = client.keyArg

----------------------------------------------------------------------------
(* C10: the body of enterprise.noise.multi *)

\* C10: for every non-empty list of valid addresses passed to
\* enterprise.noise.multi, the JSON body of the request contains every
\* address, in the order given, as an 'ips' list as long as the arguments.
C10_MultiBodyHoldsEveryIp ==
    (CallMade /\ last.name = "enterprise.noise.multi"
              /\ last.request # NoRequest /\ Len(last.args) >= 1) =>
        /\ last.request.data.obj.ips.t = "list"
        /\ last.request.data.obj.ips.v = [k \in 1..Len(last.args) |-> JStr(last.args[k])]

====
